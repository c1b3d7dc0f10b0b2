------------------------------ MODULE FairLock ------------------------------
(***************************************************************************)
(* What a lock under asyncio promises to the tasks that share it: they     *)
(* form one line, in which only the first is in, and nobody is served out  *)
(* of turn, forgotten, or left waiting while nobody is in.                 *)
(***************************************************************************)
EXTENDS Integers, Sequences

CONSTANT Callers

VARIABLES
  line,     \* who is in, and who waits, in the order they came
  at        \* where each task believes to be: "in", "waiting" or "out"

vars == <<line, at>>

IsIn(c, l) == \E i \in 1 .. Len(l) : l[i] = c

(* Where the tasks are, for a line l.                                      *)
Placed(l) ==
  [c \in Callers |-> IF l # << >> /\ l[1] = c THEN "in"
                     ELSE IF IsIn(c, l) THEN "waiting" ELSE "out"]

Init == line = << >> /\ at = Placed(line)

Enter(c) ==
  /\ at[c] = "out"
  /\ line' = Append(line, c)
  /\ at' = Placed(line')

(* From any place in the line; the first one lets the second one in.       *)
Leave(c) ==
  /\ \E i \in 1 .. Len(line) :
       /\ line[i] = c
       /\ line' = [j \in 1 .. Len(line) - 1 |-> IF j < i THEN line[j] ELSE line[j + 1]]
  /\ at' = Placed(line')

Next == \E c \in Callers : Enter(c) \/ Leave(c)

Spec == Init /\ [][Next]_vars
=============================================================================
