--------------------------- MODULE MCRateLimiter ---------------------------
(***************************************************************************)
(* Instances of RateLimiter for TLC.                                       *)
(***************************************************************************)
EXTENDS RateLimiterProperties, TLC

ClientSymmetry == Permutations(Keys)

NoSteps == {}
BackAndForth == {-3, 3}
=============================================================================
