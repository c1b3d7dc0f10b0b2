------------------------------ MODULE MCSearch ------------------------------
(***************************************************************************)
(* Instances of Search for TLC.                                            *)
(***************************************************************************)
EXTENDS SearchProperties

CONSTANTS t1, t2, t3

Call(databases, limit) == [blank |-> FALSE, limit |-> limit, databases |-> databases]

TwoDatabases == <<<<t1, t2>>, <<t3>>>>

(* Database 9 does not exist.                                              *)
AllCalls == {Call(<<2, 1>>, 2), Call(<<1, 2>>, 3), Call(<<2, 2>>, 2), Call(<<1, 9>>, 2), Call(<<1>>, 0),
             Call(<<1>>, 4), [Call(<<1>>, 2) EXCEPT !.blank = TRUE]}
OneDatabase == {Call(<<1>>, 2)}

AnyKind == {"searchable", "unindexed", "hidden"}
AllSearchable == {"searchable"}
=============================================================================
