--------------------------- MODULE AnyioLockProofs ---------------------------
(***************************************************************************)
(* What taking, queueing for, leaving and giving up the lock preserve,     *)
(* for any set of tasks and any places at which it is held.                *)
(***************************************************************************)
EXTENDS AnyioLock, SequenceTheorems, TLAPS

(* A queue without one of its members: its type, length and members.       *)
LEMMA WithoutTyped ==
  ASSUME NEW S, NEW s \in Seq(S), NEW i \in 1 .. Len(s)
  PROVE  /\ Without(s, i) \in Seq(S)
         /\ Len(Without(s, i)) = Len(s) - 1
         /\ \A j \in 1 .. Len(s) - 1 : Without(s, i)[j] = IF j < i THEN s[j] ELSE s[j + 1]
  <1>1. Len(s) - 1 \in Nat
    OBVIOUS
  <1>2. \A j \in 1 .. Len(s) - 1 : j \in 1 .. Len(s) /\ j + 1 \in 1 .. Len(s)
    OBVIOUS
  <1>3. Without(s, i) \in [1 .. Len(s) - 1 -> S]
    BY <1>2 DEF Without
  <1>4. QED
    BY <1>1, <1>3 DEF Without

(* Releasing keeps the lock's types.                                       *)
LEMMA PassOnTyped ==
  ASSUME NEW Places, LockTypeOK(Places), NEW c \in Callers,
         NEW left \in Places, NEW given \in Places, PassOn(c, left, given)
  PROVE  LockTypeOK(Places)'
  <1>1. CASE waiters = << >>
    BY <1>1 DEF LockTypeOK, PassOn, Release
  <1>2. CASE waiters # << >>
    <2>1. Head(waiters) \in Callers /\ Tail(waiters) \in Seq(Callers)
      BY <1>2 DEF LockTypeOK
    <2>2. QED
      BY <1>2, <2>1 DEF LockTypeOK, PassOn, Release
  <1>3. QED
    BY <1>1, <1>2

(* So does giving up the place in the queue.                               *)
LEMMA AbandonTyped ==
  ASSUME NEW Places, LockTypeOK(Places), NEW c \in Callers, NEW left \in Places,
         Abandon(c), pc' = [pc EXCEPT ![c] = left]
  PROVE  LockTypeOK(Places)'
  BY WithoutTyped DEF LockTypeOK, Abandon

(* A free lock that is taken is exclusive.                                 *)
LEMMA AcquireExclusive ==
  ASSUME NEW Places, NEW Holding, LockTypeOK(Places), Exclusive(Holding),
         NEW c \in Callers, NEW place \in Holding, Acquire(c), pc' = [pc EXCEPT ![c] = place]
  PROVE  Exclusive(Holding)'
  <1>1. \A d \in Callers : pc'[d] = IF d = c THEN place ELSE pc[d]
    BY DEF LockTypeOK
  <1>2. owner = NoOne /\ owner' = c /\ waiters' = waiters /\ waiters = << >>
    BY DEF Acquire, Exclusive
  <1>3. \A d \in Callers : pc'[d] \in Holding <=> d = owner'
    BY <1>1, <1>2, LockParameters DEF Exclusive
  <1>4. QED
    BY <1>2, <1>3, LockParameters DEF Exclusive

(* A task elsewhere joins the queue.                                       *)
LEMMA EnqueueExclusive ==
  ASSUME NEW Places, NEW Holding, "waiting" \notin Holding,
         LockTypeOK(Places), Exclusive(Holding), NEW c \in Callers,
         pc[c] \notin Holding \cup {"waiting"}, Enqueue(c), pc' = [pc EXCEPT ![c] = "waiting"]
  PROVE  Exclusive(Holding)'
  <1>1. /\ Len(waiters') = Len(waiters) + 1 /\ waiters'[Len(waiters')] = c
        /\ \A i \in 1 .. Len(waiters) : waiters'[i] = waiters[i] /\ waiters[i] \in Callers
    BY DEF LockTypeOK, Enqueue
  <1>2. \A d \in Callers : pc'[d] = IF d = c THEN "waiting" ELSE pc[d]
    BY DEF LockTypeOK
  <1>3. owner' = owner /\ owner # NoOne
    BY DEF Enqueue
  <1>4. \A i \in 1 .. Len(waiters) : waiters[i] # c
    BY DEF Exclusive
  <1>5. Len(waiters) \in Nat
    BY DEF LockTypeOK
  <1>6. \A d \in Callers : pc'[d] \in Holding <=> d = owner'
    BY <1>2, <1>3 DEF Exclusive
  <1>7. \A i \in 1 .. Len(waiters') : pc'[waiters'[i]] = "waiting"
    BY <1>1, <1>2, <1>4, <1>5 DEF Exclusive
  <1>8. \A i, j \in 1 .. Len(waiters') : waiters'[i] = waiters'[j] => i = j
    BY <1>1, <1>4, <1>5 DEF Exclusive
  <1>9. QED
    BY <1>3, <1>6, <1>7, <1>8 DEF Exclusive

(* The owner moves on while it keeps the lock.                             *)
LEMMA KeepExclusive ==
  ASSUME NEW Places, NEW Holding, "waiting" \notin Holding,
         LockTypeOK(Places), Exclusive(Holding), NEW c \in Callers, c = owner,
         NEW place \in Holding, pc' = [pc EXCEPT ![c] = place], UNCHANGED lockVars
  PROVE  Exclusive(Holding)'
  <1>1. /\ \A d \in Callers : pc'[d] = IF d = c THEN place ELSE pc[d]
        /\ owner' = owner /\ waiters' = waiters
    BY DEF LockTypeOK, lockVars
  <1>2. \A i \in 1 .. Len(waiters) : waiters[i] \in Callers /\ waiters[i] # c
    BY DEF LockTypeOK, Exclusive
  <1>3. QED
    BY <1>1, <1>2 DEF Exclusive

(* A task that has nothing to do with the lock moves on.                   *)
LEMMA ElsewhereExclusive ==
  ASSUME NEW Places, NEW Holding, LockTypeOK(Places), Exclusive(Holding), NEW c \in Callers,
         pc[c] \notin Holding \cup {"waiting"}, NEW place, place \notin Holding \cup {"waiting"},
         pc' = [pc EXCEPT ![c] = place], UNCHANGED lockVars
  PROVE  Exclusive(Holding)'
  <1>1. /\ \A d \in Callers : pc'[d] = IF d = c THEN place ELSE pc[d]
        /\ owner' = owner /\ waiters' = waiters
    BY DEF LockTypeOK, lockVars
  <1>2. \A i \in 1 .. Len(waiters) : waiters[i] \in Callers /\ waiters[i] # c
    BY DEF LockTypeOK, Exclusive
  <1>3. QED
    BY <1>1, <1>2 DEF Exclusive

(* The owner leaves the lock to the first task in the queue, if any.       *)
LEMMA PassOnExclusive ==
  ASSUME NEW Places, NEW Holding, "waiting" \notin Holding,
         LockTypeOK(Places), Exclusive(Holding), NEW c \in Callers, c = owner,
         NEW left, left \notin Holding, NEW given \in Holding, PassOn(c, left, given)
  PROVE  Exclusive(Holding)'
  <1>1. pc[c] \in Holding
    BY DEF Exclusive
  <1>2. CASE waiters = << >>
    <2>1. owner' = NoOne /\ waiters' = << >>
      BY <1>2 DEF PassOn, Release
    <2>2. pc' = [d \in Callers |-> IF d = c THEN left ELSE pc[d]]
      BY <1>2 DEF PassOn
    <2>3. \A d \in Callers : pc'[d] \in Holding <=> d = owner'
      BY <2>1, <2>2, LockParameters DEF Exclusive
    <2>4. QED
      BY <2>1, <2>3 DEF Exclusive
  <1>3. CASE waiters # << >>
    <2> DEFINE h == Head(waiters)
    <2>1. /\ h \in Callers /\ h = waiters[1] /\ 1 \in 1 .. Len(waiters)
          /\ Len(waiters') = Len(waiters) - 1
          /\ \A i \in 1 .. Len(waiters') :
               i + 1 \in 1 .. Len(waiters) /\ waiters'[i] = waiters[i + 1]
      <3>1. waiters \in Seq(Callers) /\ waiters' = Tail(waiters)
        BY <1>3 DEF LockTypeOK, PassOn, Release
      <3>2. /\ h \in Callers
            /\ Len(waiters') = Len(waiters) - 1
            /\ \A i \in 1 .. Len(waiters') : waiters'[i] = waiters[i + 1]
        BY <1>3, <3>1, HeadTailProperties
      <3>3. Len(waiters) \in Nat /\ Len(waiters) # 0 /\ h = waiters[1]
        BY <1>3, <3>1, EmptySeq
      <3>4. QED
        BY <3>2, <3>3
    <2>2. owner' = h
      BY <1>3 DEF PassOn, Release
    <2>3. pc[h] = "waiting" /\ h # c
      BY <1>1, <2>1 DEF Exclusive
    <2>4. /\ pc'[c] = left /\ pc'[h] = given
          /\ \A d \in Callers \ {c, h} : pc'[d] = pc[d]
      BY <1>3, <2>1, <2>3 DEF PassOn
    <2>5. \A d \in Callers : pc'[d] \in Holding <=> d = owner'
      BY <2>1, <2>2, <2>3, <2>4 DEF Exclusive
    <2>6. \A i \in 1 .. Len(waiters') : waiters'[i] # c /\ waiters'[i] # h
      BY <1>1, <2>1 DEF Exclusive
    <2>7. \A i \in 1 .. Len(waiters') : waiters'[i] \in Callers
      BY <2>1 DEF LockTypeOK
    <2>8. \A i \in 1 .. Len(waiters') : pc'[waiters'[i]] = "waiting"
      BY <2>1, <2>4, <2>6, <2>7 DEF Exclusive
    <2>9. \A i, j \in 1 .. Len(waiters') : waiters'[i] = waiters'[j] => i = j
      <3>1. TAKE i, j \in 1 .. Len(waiters')
      <3>2. HAVE waiters'[i] = waiters'[j]
      <3>3. i + 1 = j + 1
        BY <2>1, <3>2 DEF Exclusive
      <3>4. QED
        BY <3>3
    <2>10. owner' # NoOne
      BY <2>1, <2>2, LockParameters
    <2>11. QED
      BY <2>5, <2>8, <2>9, <2>10 DEF Exclusive
  <1>4. QED
    BY <1>2, <1>3

(* A queued task goes away.                                                *)
LEMMA AbandonExclusive ==
  ASSUME NEW Places, NEW Holding, "waiting" \notin Holding,
         LockTypeOK(Places), Exclusive(Holding), NEW c \in Callers,
         NEW left, left \notin Holding, Abandon(c), pc' = [pc EXCEPT ![c] = left]
  PROVE  Exclusive(Holding)'
  <1>1. PICK i \in 1 .. Len(waiters) : waiters[i] = c /\ waiters' = Without(waiters, i)
    BY DEF Abandon
  <1>2. /\ Len(waiters') = Len(waiters) - 1
        /\ \A j \in 1 .. Len(waiters) - 1 :
             waiters'[j] = IF j < i THEN waiters[j] ELSE waiters[j + 1]
    BY <1>1, WithoutTyped DEF LockTypeOK
  <1>3. pc[c] = "waiting"
    BY <1>1 DEF Exclusive
  <1>4. \A d \in Callers : pc'[d] = IF d = c THEN left ELSE pc[d]
    BY DEF LockTypeOK
  <1>5. Len(waiters) \in Nat /\ \A j \in 1 .. Len(waiters) : waiters[j] \in Callers
    BY DEF LockTypeOK
  <1>6. \A j \in 1 .. Len(waiters') :
          \E k \in 1 .. Len(waiters) : k # i /\ waiters'[j] = waiters[k]
    <2> TAKE j \in 1 .. Len(waiters')
    <2>1. CASE j < i
      BY <1>2, <1>5, <2>1
    <2>2. CASE j >= i
      <3>1. j + 1 \in 1 .. Len(waiters) /\ j + 1 # i /\ waiters'[j] = waiters[j + 1]
        BY <1>2, <1>5, <2>2
      <3>2. QED
        BY <3>1
    <2>3. QED
      BY <2>1, <2>2
  <1>7. \A j \in 1 .. Len(waiters') : pc'[waiters'[j]] = "waiting"
    BY <1>1, <1>4, <1>5, <1>6 DEF Exclusive
  <1>8. \A j, k \in 1 .. Len(waiters') : waiters'[j] = waiters'[k] => j = k
    BY <1>2, <1>5 DEF Exclusive
  <1>9. \A d \in Callers : pc'[d] \in Holding <=> d = owner'
    BY <1>3, <1>4 DEF Exclusive, Abandon
  <1>10. owner' # NoOne
    <2>1. owner # NoOne
      <3>1. waiters # << >>
        BY <1>1
      <3>2. QED
        BY <3>1 DEF Exclusive
    <2>2. QED
      BY <2>1 DEF Abandon
  <1>11. QED
    BY <1>7, <1>8, <1>9, <1>10 DEF Exclusive

(***************************************************************************)
(* A FairLock.                                                             *)
(***************************************************************************)

Fair(Holding) == INSTANCE FairLock WITH line <- Line, at <- At(Holding)

(* The line has the owner and then the queue.                              *)
LEMMA LineTyped ==
  ASSUME NEW o \in Callers \cup {NoOne}, NEW w \in Seq(Callers), o = NoOne => w = << >>
  PROVE  /\ LineOf(o, w) \in Seq(Callers)
         /\ o = NoOne <=> LineOf(o, w) = << >>
         /\ o = NoOne => Len(LineOf(o, w)) = 0
         /\ o # NoOne => /\ Len(LineOf(o, w)) = Len(w) + 1
                         /\ LineOf(o, w)[1] = o
                         /\ \A i \in 1 .. Len(w) : LineOf(o, w)[i + 1] = w[i]
  <1>1. CASE o = NoOne
    BY <1>1 DEF LineOf
  <1>2. CASE o # NoOne
    <2>1. <<o>> \in Seq(Callers) /\ Len(<<o>>) = 1 /\ <<o>>[1] = o
      BY <1>2
    <2>2. /\ <<o>> \o w \in Seq(Callers)
          /\ Len(<<o>> \o w) = Len(w) + 1
          /\ (<<o>> \o w)[1] = o
          /\ \A i \in 1 .. Len(w) : (<<o>> \o w)[i + 1] = w[i]
      BY <2>1
    <2>3. QED
      BY <1>2, <2>2 DEF LineOf
  <1>3. QED
    BY <1>1, <1>2

(* In a consistent state, everyone is where the line says.                 *)
LEMMA PlacedByLine ==
  ASSUME NEW Holding, "waiting" \notin Holding,
         NEW o \in Callers \cup {NoOne}, NEW w \in Seq(Callers), o = NoOne => w = << >>,
         NEW p, \A c \in Callers : p[c] \in Holding <=> c = o,
         \A c \in Callers : p[c] = "waiting" <=> \E i \in 1 .. Len(w) : w[i] = c
  PROVE  [c \in Callers |-> Standing(Holding, p[c])] = Fair(Holding)!Placed(LineOf(o, w))
  <1> DEFINE l == LineOf(o, w)
  <1>1. ASSUME NEW c \in Callers
        PROVE  /\ l # << >> /\ l[1] = c <=> c = o
               /\ c # o => (Fair(Holding)!IsIn(c, l) <=> \E i \in 1 .. Len(w) : w[i] = c)
    <2>1. CASE o = NoOne
      <3>1. l = << >> /\ w = << >> /\ c # o
        BY <2>1, LockParameters DEF LineOf
      <3>2. Len(l) = 0 /\ Len(w) = 0
        BY <3>1
      <3>3. QED
        BY <3>1, <3>2 DEF Fair!IsIn
    <2>2. CASE o # NoOne
      <3>1. /\ l # << >> /\ l[1] = o /\ Len(l) = Len(w) + 1 /\ Len(w) \in Nat
            /\ \A i \in 1 .. Len(w) : l[i + 1] = w[i]
        BY <2>2, LineTyped
      <3>2. ASSUME c # o, NEW i \in 1 .. Len(l), l[i] = c
            PROVE  \E k \in 1 .. Len(w) : w[k] = c
        <4>1. i # 1 /\ i - 1 \in 1 .. Len(w)
          BY <3>1, <3>2
        <4>2. w[i - 1] = c
          BY <3>1, <3>2, <4>1
        <4>3. QED
          BY <4>1, <4>2
      <3>3. ASSUME NEW i \in 1 .. Len(w), w[i] = c
            PROVE  i + 1 \in 1 .. Len(l) /\ l[i + 1] = c
        BY <3>1, <3>3
      <3>4. QED
        BY <3>1, <3>2, <3>3 DEF Fair!IsIn
    <2>3. QED
      BY <2>1, <2>2
  <1> HIDE DEF l
  <1>2. ASSUME NEW c \in Callers
        PROVE  Standing(Holding, p[c]) =
                 IF l # << >> /\ l[1] = c THEN "in"
                 ELSE IF Fair(Holding)!IsIn(c, l) THEN "waiting" ELSE "out"
    BY <1>1, <1>2 DEF Standing
  <1>3. QED
    BY <1>2 DEF Fair!Placed, l

(* The lock's invariant, and what it is of the places and the line.        *)
FairState(Holding) == Exclusive(Holding) /\ Queued

LEMMA FairlyPlacedNext ==
  ASSUME NEW Places, NEW Holding, "waiting" \notin Holding,
         LockTypeOK(Places)', FairState(Holding)'
  PROVE  At(Holding)' = Fair(Holding)!Placed(Line')
  BY PlacedByLine DEF LockTypeOK, FairState, Exclusive, Queued, At, Line

(* Taking a free lock is entering an empty line.                           *)
LEMMA AcquireEnters ==
  ASSUME NEW Places, NEW Holding, "waiting" \notin Holding, LockTypeOK(Places),
         FairState(Holding), NEW c \in Callers, NEW place \in Holding, Acquire(c),
         pc[c] # "waiting", pc' = [pc EXCEPT ![c] = place], LockTypeOK(Places)'
  PROVE  FairState(Holding)' /\ Fair(Holding)!Enter(c)
  <1>1. \A d \in Callers : pc'[d] = IF d = c THEN place ELSE pc[d]
    BY DEF LockTypeOK
  <1>2. owner = NoOne /\ owner' = c /\ waiters' = << >> /\ waiters = << >> /\ c # NoOne
    BY LockParameters DEF Acquire, FairState, Exclusive
  <1>3. Exclusive(Holding)'
    BY AcquireExclusive DEF FairState
  <1>4. Queued'
    BY <1>1, <1>2 DEF FairState, Queued
  <1>5. Line = << >> /\ Line' = <<c>>
    BY <1>2 DEF Line, LineOf
  <1>6. At(Holding)[c] = "out"
    BY <1>2, LockParameters DEF At, Standing, FairState, Exclusive
  <1>7. At(Holding)' = Fair(Holding)!Placed(Line')
    BY <1>3, <1>4, FairlyPlacedNext DEF FairState
  <1>8. QED
    BY <1>3, <1>4, <1>5, <1>6, <1>7 DEF FairState, Fair!Enter

(* Queueing is entering a line that somebody is in.                        *)
LEMMA EnqueueEnters ==
  ASSUME NEW Places, NEW Holding, "waiting" \notin Holding, LockTypeOK(Places),
         FairState(Holding), NEW c \in Callers, pc[c] \notin Holding \cup {"waiting"},
         Enqueue(c), pc' = [pc EXCEPT ![c] = "waiting"], LockTypeOK(Places)'
  PROVE  FairState(Holding)' /\ Fair(Holding)!Enter(c)
  <1>1. \A d \in Callers : pc'[d] = IF d = c THEN "waiting" ELSE pc[d]
    BY DEF LockTypeOK
  <1>2. /\ owner # NoOne /\ owner \in Callers /\ owner' = owner
        /\ waiters \in Seq(Callers) /\ waiters' = Append(waiters, c)
    BY DEF Enqueue, LockTypeOK
  <1>3. Exclusive(Holding)'
    BY EnqueueExclusive DEF FairState
  <1>4. Queued'
    <2>1. /\ Len(waiters') = Len(waiters) + 1 /\ Len(waiters) \in Nat /\ waiters'[Len(waiters')] = c
          /\ \A i \in 1 .. Len(waiters) : waiters'[i] = waiters[i]
      BY <1>2
    <2>2. ASSUME NEW d \in Callers, pc'[d] = "waiting"
          PROVE  \E i \in 1 .. Len(waiters') : waiters'[i] = d
      <3>1. CASE d = c
        BY <2>1, <3>1
      <3>2. CASE d # c
        <4>1. PICK i \in 1 .. Len(waiters) : waiters[i] = d
          BY <1>1, <2>2, <3>2 DEF FairState, Queued
        <4>2. i \in 1 .. Len(waiters') /\ waiters'[i] = d
          BY <2>1, <4>1
        <4>3. QED
          BY <4>2
      <3>3. QED
        BY <3>1, <3>2
    <2>3. QED
      BY <2>2 DEF Queued
  <1>5. Line' = Append(Line, c)
    <2>1. <<owner>> \o Append(waiters, c) = Append(<<owner>> \o waiters, c)
      BY <1>2
    <2>2. QED
      BY <1>2, <2>1 DEF Line, LineOf
  <1>6. At(Holding)[c] = "out"
    BY DEF At, Standing
  <1>7. At(Holding)' = Fair(Holding)!Placed(Line')
    BY <1>3, <1>4, FairlyPlacedNext DEF FairState
  <1>8. QED
    BY <1>3, <1>4, <1>5, <1>6, <1>7 DEF FairState, Fair!Enter

(* Releasing is leaving the front of the line.                             *)
LEMMA PassOnLeaves ==
  ASSUME NEW Places, NEW Holding, "waiting" \notin Holding, LockTypeOK(Places),
         FairState(Holding), NEW c \in Callers, c = owner,
         NEW left, left \notin Holding \cup {"waiting"}, NEW given \in Holding,
         PassOn(c, left, given), LockTypeOK(Places)'
  PROVE  FairState(Holding)' /\ Fair(Holding)!Leave(c)
  <1>1. Exclusive(Holding)'
    BY PassOnExclusive DEF FairState
  <1>2. owner # NoOne /\ waiters \in Seq(Callers) /\ Len(waiters) \in Nat
    BY LockParameters DEF LockTypeOK
  <1>3. /\ Len(Line) = Len(waiters) + 1 /\ Line[1] = c
        /\ \A i \in 1 .. Len(waiters) : Line[i + 1] = waiters[i]
    BY <1>2, LineTyped DEF Line
  <1>4. Line' = waiters /\ \A d \in Callers : pc'[d] = "waiting" =>
                              d # c /\ pc[d] = "waiting" /\ (waiters # << >> => d # Head(waiters))
    <2>1. CASE waiters = << >>
      <3>1. owner' = NoOne /\ waiters' = << >>
        BY <2>1 DEF PassOn, Release
      <3>2. QED
        BY <2>1, <3>1 DEF PassOn, Line, LineOf
    <2>2. CASE waiters # << >>
      <3>1. owner' = Head(waiters) /\ waiters' = Tail(waiters)
        BY <2>2 DEF PassOn, Release
      <3>2. Head(waiters) \in Callers /\ <<Head(waiters)>> \o Tail(waiters) = waiters
        BY <1>2, <2>2
      <3>3. Line' = waiters
        BY <3>1, <3>2, LockParameters DEF Line, LineOf
      <3>4. QED
        BY <2>2, <3>3 DEF PassOn
    <2>3. QED
      BY <2>1, <2>2
  <1>5. Queued'
    <2>1. ASSUME NEW d \in Callers, pc'[d] = "waiting"
          PROVE  \E i \in 1 .. Len(waiters') : waiters'[i] = d
      <3>1. PICK i \in 1 .. Len(waiters) : waiters[i] = d
        BY <1>4, <2>1 DEF FairState, Queued
      <3>2. waiters # << >> /\ d # Head(waiters) /\ waiters' = Tail(waiters)
        BY <1>2, <1>4, <2>1, <3>1 DEF PassOn, Release
      <3>3. i # 1 /\ i - 1 \in 1 .. Len(waiters')
        BY <1>2, <3>1, <3>2
      <3>4. waiters'[i - 1] = d
        BY <1>2, <3>1, <3>2, <3>3
      <3>5. QED
        BY <3>3, <3>4
    <2>2. QED
      BY <2>1 DEF Queued
  <1>6. waiters = [j \in 1 .. Len(Line) - 1 |-> IF j < 1 THEN Line[j] ELSE Line[j + 1]]
    <2>1. Len(Line) - 1 = Len(waiters) /\ waiters = [j \in 1 .. Len(waiters) |-> waiters[j]]
      BY <1>2, <1>3
    <2>2. QED
      BY <1>2, <1>3, <2>1
  <1>7. At(Holding)' = Fair(Holding)!Placed(Line')
    BY <1>1, <1>5, FairlyPlacedNext DEF FairState
  <1>8. 1 \in 1 .. Len(Line)
    BY <1>2, <1>3
  <1>9. QED
    BY <1>1, <1>3, <1>4, <1>5, <1>6, <1>7, <1>8 DEF FairState, Fair!Leave

(* A cancelled task leaves the line from where it is.                      *)
LEMMA AbandonLeaves ==
  ASSUME NEW Places, NEW Holding, "waiting" \notin Holding, LockTypeOK(Places),
         FairState(Holding), NEW c \in Callers, NEW left, left \notin Holding \cup {"waiting"},
         Abandon(c), pc' = [pc EXCEPT ![c] = left], LockTypeOK(Places)'
  PROVE  FairState(Holding)' /\ Fair(Holding)!Leave(c)
  <1>1. PICK i \in 1 .. Len(waiters) : waiters[i] = c /\ waiters' = Without(waiters, i)
    BY DEF Abandon
  <1>2. Exclusive(Holding)'
    BY AbandonExclusive DEF FairState
  <1>3. waiters \in Seq(Callers) /\ Len(waiters) \in Nat /\ owner' = owner
    BY DEF LockTypeOK, Abandon
  <1>4. /\ waiters' \in Seq(Callers)
        /\ Len(waiters') = Len(waiters) - 1
        /\ \A j \in 1 .. Len(waiters) - 1 :
             waiters'[j] = IF j < i THEN waiters[j] ELSE waiters[j + 1]
    BY <1>1, <1>3, WithoutTyped
  <1>5. owner \in Callers /\ owner # NoOne
    <2>1. waiters # << >>
      BY <1>1
    <2>2. QED
      BY <2>1 DEF FairState, Exclusive, LockTypeOK
  <1>6. \A d \in Callers : pc'[d] = IF d = c THEN left ELSE pc[d]
    BY DEF LockTypeOK
  <1>7. Queued'
    <2>1. ASSUME NEW d \in Callers, pc'[d] = "waiting"
          PROVE  \E j \in 1 .. Len(waiters') : waiters'[j] = d
      <3>1. PICK j \in 1 .. Len(waiters) : waiters[j] = d /\ d # c
        BY <1>6, <2>1 DEF FairState, Queued
      <3>2. CASE j < i
        BY <1>3, <1>4, <3>1, <3>2
      <3>3. CASE j >= i
        <4>1. j # i
          BY <1>1, <3>1
        <4>2. j - 1 \in 1 .. Len(waiters') /\ ~(j - 1 < i)
          BY <1>3, <1>4, <3>1, <3>3, <4>1
        <4>3. waiters'[j - 1] = d
          BY <1>3, <1>4, <3>1, <4>2
        <4>4. QED
          BY <4>2, <4>3
      <3>4. QED
        BY <3>2, <3>3
    <2>2. QED
      BY <2>1 DEF Queued
  <1>8. /\ Len(Line) = Len(waiters) + 1 /\ Line[1] = owner
        /\ \A j \in 1 .. Len(waiters) : Line[j + 1] = waiters[j]
    BY <1>3, <1>5, LineTyped DEF Line
  <1>9. /\ Line' \in Seq(Callers)
        /\ Len(Line') = Len(waiters') + 1 /\ Line'[1] = owner
        /\ \A j \in 1 .. Len(waiters') : Line'[j + 1] = waiters'[j]
    <2>1. Line' = LineOf(owner, waiters')
      BY <1>3 DEF Line
    <2>2. QED
      BY <1>4, <1>5, <2>1, LineTyped
  <1> DEFINE rest == [j \in 1 .. Len(Line) - 1 |-> IF j < i + 1 THEN Line[j] ELSE Line[j + 1]]
  <1>10. \A j \in 1 .. Len(Line) - 1 : Line'[j] = rest[j]
    <2> TAKE j \in 1 .. Len(Line) - 1
    <2>1. rest[j] = IF j < i + 1 THEN Line[j] ELSE Line[j + 1]
      OBVIOUS
    <2> HIDE DEF rest
    <2>2. CASE j = 1
      BY <1>3, <1>8, <1>9, <2>1, <2>2
    <2>3. CASE j # 1
      <3>1. j - 1 \in 1 .. Len(waiters') /\ j - 1 \in 1 .. Len(waiters) /\ j \in 1 .. Len(waiters)
        BY <1>3, <1>4, <1>8, <2>3
      <3>2. Line'[j] = waiters'[j - 1]
        BY <1>9, <3>1
      <3>3. Line[j] = waiters[j - 1] /\ Line[j + 1] = waiters[j]
        BY <1>8, <3>1
      <3>4. waiters'[j - 1] = IF j - 1 < i THEN waiters[j - 1] ELSE waiters[j]
        BY <1>4, <3>1
      <3>5. QED
        BY <2>1, <3>2, <3>3, <3>4
    <2>4. QED
      BY <2>2, <2>3
  <1>11. Line' = rest
    <2>1. Len(Line') = Len(Line) - 1 /\ Line' = [j \in 1 .. Len(Line') |-> Line'[j]]
      BY <1>3, <1>4, <1>8, <1>9
    <2>2. QED
      BY <1>10, <2>1
  <1>12. i + 1 \in 1 .. Len(Line) /\ Line[i + 1] = c
    BY <1>1, <1>3, <1>8
  <1>13. At(Holding)' = Fair(Holding)!Placed(Line')
    BY <1>2, <1>7, FairlyPlacedNext DEF FairState
  <1>14. QED
    BY <1>2, <1>7, <1>11, <1>12, <1>13 DEF FairState, Fair!Leave

(* A step between two places at which the lock is held, or between two at  *)
(* which the task has nothing to do with it, is no step of the FairLock.   *)
LEMMA MoveStutters ==
  ASSUME NEW Places, NEW Holding, "waiting" \notin Holding, LockTypeOK(Places),
         FairState(Holding), NEW c \in Callers, NEW place,
         \/ c = owner /\ place \in Holding
         \/ pc[c] \notin Holding \cup {"waiting"} /\ place \notin Holding \cup {"waiting"},
         pc' = [pc EXCEPT ![c] = place], UNCHANGED lockVars
  PROVE  FairState(Holding)' /\ UNCHANGED <<Line, At(Holding)>>
  <1>1. \A d \in Callers : pc'[d] = IF d = c THEN place ELSE pc[d]
    BY DEF LockTypeOK
  <1>2. owner' = owner /\ waiters' = waiters
    BY DEF lockVars
  <1>3. Exclusive(Holding)'
    BY KeepExclusive, ElsewhereExclusive DEF FairState
  <1>4. pc[c] # "waiting" /\ place # "waiting" /\ (pc[c] \in Holding <=> place \in Holding)
    BY DEF FairState, Exclusive
  <1>5. Queued'
    BY <1>1, <1>2, <1>4 DEF FairState, Queued
  <1>6. At(Holding)' = At(Holding)
    BY <1>1, <1>4 DEF At, Standing
  <1>7. QED
    BY <1>2, <1>3, <1>5, <1>6 DEF FairState, Line
=============================================================================
