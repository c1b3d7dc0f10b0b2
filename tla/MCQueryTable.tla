---------------------------- MODULE MCQueryTable ----------------------------
(***************************************************************************)
(* Instances of QueryTable for TLC.                                        *)
(***************************************************************************)
EXTENDS QueryTableProperties

CONSTANTS u, v, c1

(* v is another spelling of u.                                             *)
TwoSpellings == [x \in Urls |-> IF x = v THEN u ELSE x]

(* The first document's fragments were inserted last and backwards.        *)
SomeFragments == [p \in Parents |-> IF p = 1 THEN 2 ELSE 1]
InsertionOrder == [r \in Rows |-> IF r[1] = 1 THEN 9 - r[2] ELSE r[2]]

Ask(urls, beyond, sort, limit) ==
  [urls |-> urls, beyond |-> beyond, sort |-> sort, limit |-> limit]

(* The first client walks, the second only looks up.                       *)
WalkerAndOther ==
  [c \in Callers |->
     IF c = c1
     THEN {Ask(<<u>>, 0, "none", 1), Ask(<<v>>, 0, "none", 2), Ask(<<v>>, 1, "down", 1)}
     ELSE {Ask(<<v>>, 0, "none", 5), Ask(<<u, v>>, 0, "none", 5)}]

(* One walker, asking for either sort.                                     *)
TwoSorts == [c \in Callers |-> {Ask(<<u>>, 0, sort, 1) : sort \in {"none", "down"}}]
=============================================================================
